---------------------------- MODULE Spec2Model ----------------------------
(***************************************************************************)
(* Hour Tracker: the submission component (hourTracker.js), the Apex       *)
(* controllers (WorkLogController.cls) and the display component           *)
(* (hourTrackerDisplay), modelled as one state machine.                    *)
(*                                                                         *)
(* A date string "YYYY-MM-DD" is modelled by its day number, counted from  *)
(* 1970-01-01 (day 0, a Thursday).  A text is a sequence of one-character  *)
(* strings.                                                                *)
(***************************************************************************)
EXTENDS Integers, Sequences, FiniteSets, TLC

(***************************************************************************)
(* Bounds of the model.                                                    *)
(***************************************************************************)
\* the date picker offers the days 1..MaxDate (1970-01-02, a Friday, onwards)
MaxDate == 4
\* number of handleSubmit invocations in one run
MaxCalls == 2
\* number of handleInputChange invocations in one run
MaxEdits == 1
\* number of hourTrackerDisplay components on the page
NumDisplays == 1
\* the last day a record in a store that is already filled was submitted for
MaxStoredDate == 10
\* number of records in a store that is already filled
MaxStored == 2
\* number of messages other components publish on the channel in one run
MaxMessages == 2

(***************************************************************************)
(* JavaScript values held by the draft.                                    *)
(***************************************************************************)
\* hourTracker.js:9 declares sundayDate without a value
Undefined == [kind |-> "undefined", day |-> 0]
Null == [kind |-> "null", day |-> 0]
EmptyString == [kind |-> "string", day |-> 0]
DateString(d) == [kind |-> "date", day |-> d]

\* the values event.target.value of the date input can take
DateInputs == {EmptyString} \cup {DateString(d) : d \in 1..MaxDate}

\* the number 0 and the strings an hours input delivers
NumberZero == [type |-> "number", text |-> <<"0">>]
StringValue(s) == [type |-> "string", text |-> s]
HourInputs ==
    { StringValue(<<"7", ".", "5">>), StringValue(<<"-", "3">>),
      StringValue(<<"a", "b", "c">>) }

Days == {"sunday", "monday", "tuesday", "wednesday", "thursday", "friday", "saturday"}

\* the hour inputs the user types into: the first and the last branch of
\* handleInputChange
EditedDays == {"sunday", "saturday"}

ZeroHours == [d \in Days |-> NumberZero]

(***************************************************************************)
(* Date arithmetic of the browser and of Apex.                             *)
(***************************************************************************)
\* the browser's offset from UTC in hours: behind UTC, and UTC
TimezoneOffsets == {-5, 0}

FloorDiv(a, b) == IF a >= 0 THEN a \div b ELSE -((-a + b - 1) \div b)

\* new Date(value).getDay(): the string is parsed as UTC midnight, getDay()
\* answers in local time; an invalid date gives NaN, written -1 here
GetDay(value, offset) ==
    IF value.kind # "date" THEN -1
    ELSE LET localDay == FloorDiv(value.day * 24 + offset, 24)
         IN  (localDay + 4) % 7

\* mutant: Date.valueOf takes whatever it is given
DateValueOfLenient(value) == FALSE

\* Date.valueOf(String): throws on null and on a string that is no date
DateValueOfThrows(value) == value.kind # "date"

\* mutant: the one-day shift is left out
AddDaysNone(day, n) == day

AddDays(day, n) == day + n

\* Date.valueOf((String) hourTrackerData.get('sundayDate')).addDays(1)
ParseSundayDate(value) == AddDays(value.day, 1)

(***************************************************************************)
(* Decimal.valueOf(String.valueOf(x))                                      *)
(***************************************************************************)
DigitChars == <<"0", "1", "2", "3", "4", "5", "6", "7", "8", "9">>

IsDigit(c) == \E i \in 1..10 : DigitChars[i] = c

DigitValue(c) == (CHOOSE i \in 1..10 : DigitChars[i] = c) - 1

AllDigits(s) == \A i \in 1..Len(s) : IsDigit(s[i])

RECURSIVE DigitsValue(_, _)
DigitsValue(s, acc) ==
    IF s = <<>> THEN acc
    ELSE DigitsValue(Tail(s), acc * 10 + DigitValue(Head(s)))

\* String.valueOf of a JavaScript number or string that arrived in the map
StringValueOf(v) == v.text

\* [ok, unscaled, scale]: the decimal unscaled / 10^scale, or ok = FALSE
\* where Decimal.valueOf throws a TypeException
DecimalValueOf(text) ==
    LET signed == Len(text) > 0 /\ text[1] \in {"-", "+"}
        neg == Len(text) > 0 /\ text[1] = "-"
        body == IF signed THEN Tail(text) ELSE text
        dots == {i \in 1..Len(body) : body[i] = "."}
        dot == IF dots = {} THEN Len(body) + 1 ELSE CHOOSE i \in dots : \A j \in dots : i <= j
        intPart == SubSeq(body, 1, dot - 1)
        fracPart == SubSeq(body, dot + 1, Len(body))
        wellFormed == /\ Cardinality(dots) <= 1
                      /\ Len(intPart) + Len(fracPart) > 0
                      /\ AllDigits(intPart)
                      /\ AllDigits(fracPart)
        magnitude == DigitsValue(intPart \o fracPart, 0)
    IN  IF wellFormed
        THEN [ok |-> TRUE, unscaled |-> IF neg THEN -magnitude ELSE magnitude,
              scale |-> Len(fracPart)]
        ELSE [ok |-> FALSE, unscaled |-> 0, scale |-> 0]

CoerceHour(v) == DecimalValueOf(StringValueOf(v))

\* mutant: only the first field is checked before the insert
HoursCoercibleSundayOnly(hs) == CoerceHour(hs["sunday"]).ok

\* lines 38-44 complete without a TypeException
HoursCoercible(hs) == \A d \in Days : CoerceHour(hs[d]).ok

(***************************************************************************)
(* State.                                                                  *)
(***************************************************************************)
VARIABLES
    timezone,     \* the browser's UTC offset, fixed for the run
    sundayDate,   \* HourTracker.sundayDate
    showTable,    \* HourTracker.showTable
    hours,        \* HourTracker.sundayHours .. saturdayHours
    toast,        \* the last ShowToastEvent dispatched by HourTracker
    edits,        \* handleInputChange invocations so far
    calls,        \* the saveHours calls made so far, in order of handleSubmit
    records,      \* the HourTracker__c rows in the database
    published,    \* the messages published on HourTrackerMessageChannel__c
    displays      \* the HourTrackerDisplay components

vars == <<timezone, sundayDate, showTable, hours, toast, edits, calls, records,
          published, displays>>

NoToast == [title |-> "", message |-> "", variant |-> ""]

ShowToastEvent(title, message, variant) ==
    [title |-> title, message |-> message, variant |-> variant]

DuplicateMessage == "A record for this date already exists. Please choose a different date."

\* a display before connectedCallback: hoursData = [], wiredHoursResult unset
NewDisplay ==
    [ connected |-> FALSE,
      wiredHoursResult |-> "undefined",
      hoursData |-> <<>>,
      inbox |-> <<>>,
      fetches |-> <<>> ]

Init ==
    /\ timezone \in TimezoneOffsets
    /\ sundayDate = Undefined
    /\ showTable = FALSE
    /\ hours = ZeroHours
    /\ toast = NoToast
    /\ edits = 0
    /\ calls = <<>>
    /\ records = {}
    /\ published = <<>>
    /\ displays = [d \in 1..NumDisplays |-> NewDisplay]

(***************************************************************************)
(* HourTracker (hourTracker.js)                                            *)
(***************************************************************************)
\* mutant: a rejected date stays in the draft
HandleDateChangeKeepsDate(value) ==
    /\ IF GetDay(value, timezone) # 6
       THEN /\ showTable' = FALSE
            /\ toast' = ShowToastEvent("Invalid Date", "Please select a Sunday date.", "error")
            /\ sundayDate' = value
       ELSE /\ sundayDate' = value
            /\ showTable' = TRUE
            /\ toast' = toast
    /\ UNCHANGED <<timezone, hours, edits, calls, records, published, displays>>

\* mutant: a rejected date resets the whole form
HandleDateChangeResetsForm(value) ==
    /\ IF GetDay(value, timezone) # 6
       THEN /\ showTable' = FALSE
            /\ toast' = ShowToastEvent("Invalid Date", "Please select a Sunday date.", "error")
            /\ sundayDate' = EmptyString
            /\ hours' = ZeroHours
       ELSE /\ sundayDate' = value
            /\ showTable' = TRUE
            /\ toast' = toast
            /\ hours' = hours
    /\ UNCHANGED <<timezone, edits, calls, records, published, displays>>

HandleDateChange(value) ==
    /\ IF GetDay(value, timezone) # 6
       THEN /\ showTable' = FALSE
            /\ toast' = ShowToastEvent("Invalid Date", "Please select a Sunday date.", "error")
            /\ sundayDate' = EmptyString
       ELSE /\ sundayDate' = value
            /\ showTable' = TRUE
            /\ toast' = toast
    /\ UNCHANGED <<timezone, hours, edits, calls, records, published, displays>>

\* mutant: the request holds the component's fields, not a copy of them
HandleInputChangeShared(day, value) ==
    /\ edits < MaxEdits
    /\ edits' = edits + 1
    /\ hours' = [hours EXCEPT ![day] = value]
    /\ calls' = [c \in 1..Len(calls) |->
                    IF calls[c].pc \in {"sent", "queried"}
                    THEN [calls[c] EXCEPT !.hourData.hours[day] = value]
                    ELSE calls[c]]
    /\ UNCHANGED <<timezone, sundayDate, showTable, toast, records, published, displays>>

HandleInputChange(day, value) ==
    /\ edits < MaxEdits
    /\ edits' = edits + 1
    /\ hours' = [hours EXCEPT ![day] = value]
    /\ UNCHANGED <<timezone, sundayDate, showTable, toast, calls, records, published, displays>>

\* what is left of the request's payload once the server has consumed it
NoHourData == [sundayDate |-> Undefined, hours |-> ZeroHours]

\* the call as handleSubmit leaves it: the request is on its way.  after is
\* the set of earlier calls whose insert was committed when this one started
NewCall(hourData) ==
    [ hourData |-> hourData,
      pc |-> "sent",
      sundayDate |-> 0,
      error |-> "",
      recordId |-> 0,
      after |-> {i \in 1..Len(calls) : calls[i].recordId # 0} ]

\* a call whose promise has settled: only its outcome is left
SettledCall(pc, recordId) ==
    [ hourData |-> NoHourData,
      pc |-> pc,
      sundayDate |-> 0,
      error |-> "",
      recordId |-> recordId,
      after |-> {} ]

HandleSubmit ==
    /\ Len(calls) < MaxCalls
    /\ calls' = Append(calls, NewCall([sundayDate |-> sundayDate, hours |-> hours]))
    /\ UNCHANGED <<timezone, sundayDate, showTable, hours, toast, edits, records,
                   published, displays>>

\* { refresh: true }
JSTrue == [type |-> "boolean", text |-> <<"true">>]
RefreshMessage == [refresh |-> JSTrue]

Subscribers == {d \in 1..NumDisplays : displays[d].connected}

\* publish(...): the message reaches every subscriber of the channel.  The
\* log keeps who was subscribed (to), which subscribers had a provisioned wire
\* result (loaded) and the Ids of the records stored at that moment (stored)
Publish(message, c) ==
    /\ published' = Append(published,
            [ message |-> message, from |-> c, to |-> Subscribers,
              loaded |-> {d \in Subscribers : displays[d].wiredHoursResult # "undefined"},
              stored |-> {r.Id : r \in records} ])
    /\ displays' = [d \in 1..NumDisplays |->
            IF d \in Subscribers
            THEN [displays[d] EXCEPT !.inbox = Append(@, message)]
            ELSE displays[d]]

PublishRefreshMessage(c) == Publish(RefreshMessage, c)

ResetForm ==
    /\ sundayDate' = Null
    /\ hours' = ZeroHours

\* mutant: the success callback forgets to publish
SaveHoursThenSilent(c) ==
    /\ c \in 1..Len(calls)
    /\ calls[c].pc = "inserted"
    /\ toast' = ShowToastEvent("Success", "Hours saved successfully!", "success")
    /\ ResetForm
    /\ showTable' = FALSE
    /\ calls' = [calls EXCEPT ![c] = SettledCall("resolved", calls[c].recordId)]
    /\ UNCHANGED <<timezone, edits, records, published, displays>>

\* the .then callback of handleSubmit: the response of a successful call arrives
SaveHoursThen(c) ==
    /\ c \in 1..Len(calls)
    /\ calls[c].pc = "inserted"
    /\ toast' = ShowToastEvent("Success", "Hours saved successfully!", "success")
    /\ PublishRefreshMessage(c)
    /\ ResetForm
    /\ showTable' = FALSE
    /\ calls' = [calls EXCEPT ![c] = SettledCall("resolved", calls[c].recordId)]
    /\ UNCHANGED <<timezone, edits, records>>

\* mutant: the failure callback publishes a refresh as well
SaveHoursCatchPublishes(c) ==
    /\ c \in 1..Len(calls)
    /\ calls[c].pc = "failed"
    /\ toast' = ShowToastEvent("Error", calls[c].error, "error")
    /\ PublishRefreshMessage(c)
    /\ calls' = [calls EXCEPT ![c] = SettledCall("rejected", 0)]
    /\ UNCHANGED <<timezone, sundayDate, showTable, hours, edits, records>>

\* mutant: the failure callback resets the form as well
SaveHoursCatchResets(c) ==
    /\ c \in 1..Len(calls)
    /\ calls[c].pc = "failed"
    /\ toast' = ShowToastEvent("Error", calls[c].error, "error")
    /\ ResetForm
    /\ calls' = [calls EXCEPT ![c] = SettledCall("rejected", 0)]
    /\ UNCHANGED <<timezone, showTable, edits, records, published, displays>>

\* the .catch callback of handleSubmit: the error of a failed call arrives
SaveHoursCatch(c) ==
    /\ c \in 1..Len(calls)
    /\ calls[c].pc = "failed"
    /\ toast' = ShowToastEvent("Error", calls[c].error, "error")
    /\ calls' = [calls EXCEPT ![c] = SettledCall("rejected", 0)]
    /\ UNCHANGED <<timezone, sundayDate, showTable, hours, edits, records, published, displays>>

\* Apex throws, or the transport fails: the error is on its way to the client
Throw(c, message) ==
    calls' = [calls EXCEPT ![c].pc = "failed", ![c].error = message,
                           ![c].hourData = NoHourData]

\* the request never reaches the server, or the server cannot run the method
TransportError(c) ==
    /\ c \in 1..Len(calls)
    /\ calls[c].pc = "sent"
    /\ Throw(c, "Transport")
    /\ UNCHANGED <<timezone, sundayDate, showTable, hours, toast, edits, records,
                   published, displays>>

(***************************************************************************)
(* WorkLogController.saveHours (WorkLogController.cls)                     *)
(***************************************************************************)
\* mutant: the existence query finds nothing
ExistingRecordsNone(date) == {}

\* SELECT Id FROM HourTracker__c WHERE Sunday_Date__c = :sundayDate
ExistingRecords(date) == {r \in records : r.Sunday_Date__c = date}

\* lines 21-33: parse the date, query the existing records, refuse a duplicate
SaveHoursQuery(c) ==
    /\ c \in 1..Len(calls)
    /\ calls[c].pc = "sent"
    /\ IF DateValueOfThrows(calls[c].hourData.sundayDate)
       THEN Throw(c, "Invalid date")
       ELSE LET date == ParseSundayDate(calls[c].hourData.sundayDate)
            IN  IF ExistingRecords(date) # {}
                THEN calls' = [calls EXCEPT ![c].pc = "failed",
                                            ![c].sundayDate = date,
                                            ![c].error = DuplicateMessage,
                                            ![c].hourData = NoHourData]
                ELSE calls' = [calls EXCEPT ![c].pc = "queried",
                                            ![c].sundayDate = date]
    /\ UNCHANGED <<timezone, sundayDate, showTable, hours, toast, edits, records,
                   published, displays>>

\* the database assigns the Id
NextId == Cardinality(records) + 1

\* lines 36-44: the new HourTracker__c with its eight fields
NewHourTracker(date, hourData) ==
    [ Id |-> NextId,
      Sunday_Date__c |-> date,
      Hours |-> [d \in Days |->
                    [unscaled |-> CoerceHour(hourData.hours[d]).unscaled,
                     scale |-> CoerceHour(hourData.hours[d]).scale]] ]

\* mutant: upsert on the week start instead of insert
SaveHoursUpsert(c) ==
    /\ c \in 1..Len(calls)
    /\ calls[c].pc = "queried"
    /\ IF ~HoursCoercible(calls[c].hourData.hours)
       THEN /\ Throw(c, "Invalid decimal")
            /\ records' = records
       ELSE /\ records' = {r \in records : r.Sunday_Date__c # calls[c].sundayDate}
                            \cup {NewHourTracker(calls[c].sundayDate, calls[c].hourData)}
            /\ calls' = [calls EXCEPT ![c].pc = "inserted", ![c].recordId = NextId,
                                      ![c].hourData = NoHourData, ![c].after = {}]
    /\ UNCHANGED <<timezone, sundayDate, showTable, hours, toast, edits, published, displays>>

\* lines 36-47: coerce the seven hour fields, insert the record
SaveHoursInsert(c) ==
    /\ c \in 1..Len(calls)
    /\ calls[c].pc = "queried"
    /\ IF ~HoursCoercible(calls[c].hourData.hours)
       THEN /\ Throw(c, "Invalid decimal")
            /\ records' = records
       ELSE /\ records' = records \cup {NewHourTracker(calls[c].sundayDate, calls[c].hourData)}
            /\ calls' = [calls EXCEPT ![c].pc = "inserted", ![c].recordId = NextId,
                                      ![c].hourData = NoHourData, ![c].after = {}]
    /\ UNCHANGED <<timezone, sundayDate, showTable, hours, toast, edits, published, displays>>

(***************************************************************************)
(* The submission side: HourTracker and WorkLogController.                 *)
(***************************************************************************)
Next ==
    \/ \E value \in DateInputs : HandleDateChange(value)
    \/ \E day \in EditedDays, value \in HourInputs : HandleInputChange(day, value)
    \/ HandleSubmit
    \/ \E c \in 1..MaxCalls : SaveHoursQuery(c)
    \/ \E c \in 1..MaxCalls : SaveHoursInsert(c)
    \/ \E c \in 1..MaxCalls : TransportError(c)
    \/ \E c \in 1..MaxCalls : SaveHoursThen(c)
    \/ \E c \in 1..MaxCalls : SaveHoursCatch(c)

Spec == Init /\ [][Next]_vars

\* a request sent is answered, and the event loop runs the callback of every
\* response that arrives
Fairness ==
    \A c \in 1..MaxCalls :
        /\ WF_vars(SaveHoursQuery(c) \/ TransportError(c))
        /\ WF_vars(SaveHoursInsert(c))
        /\ WF_vars(SaveHoursThen(c))
        /\ WF_vars(SaveHoursCatch(c))

FairSpec == Spec /\ Fairness

(***************************************************************************)
(* HourTrackerController.getAllHours (WorkLogController.cls)               *)
(***************************************************************************)
\* mutant: the ORDER BY clause is left out, the rows come in order of insertion
OrderedScansById ==
    LET n == Cardinality(records)
    IN  { rows \in [1..n -> records] :
            /\ \A i, j \in 1..n : i # j => rows[i] # rows[j]
            /\ \A i, j \in 1..n : i < j => rows[i].Id <= rows[j].Id }

\* ORDER BY Sunday_Date__c: every record once, ascending by date; the order
\* of two records of the same date is the database's choice
OrderedScans ==
    LET n == Cardinality(records)
    IN  { rows \in [1..n -> records] :
            /\ \A i, j \in 1..n : i # j => rows[i] # rows[j]
            /\ \A i, j \in 1..n : i < j => rows[i].Sunday_Date__c <= rows[j].Sunday_Date__c }

(***************************************************************************)
(* HourTrackerDisplay (hourTrackerDisplay.js)                              *)
(***************************************************************************)
\* mutant: the test is refresh === true
TruthyStrictlyTrue(v) == v.type = "boolean" /\ v.text = <<"true">>

\* JavaScript's ToBoolean of a message field
Truthy(v) ==
    CASE v.type = "boolean" -> v.text = <<"true">>
      [] v.type = "number" -> v.text # <<"0">>
      [] v.type = "string" -> v.text # <<>>
      [] OTHER -> FALSE

\* a getAllHours request of the wire adapter, not yet answered
FetchRequest == [stage |-> "requested", data |-> <<>>]

\* connectedCallback subscribes; the wire adapter of getAllHours sends its
\* first request as the component connects
ConnectedCallback(d) ==
    /\ ~displays[d].connected
    /\ displays' = [displays EXCEPT ![d].connected = TRUE,
                                    ![d].fetches = <<FetchRequest>>]
    /\ UNCHANGED <<timezone, sundayDate, showTable, hours, toast, edits, calls,
                   records, published>>

\* the messages a component of the page can publish on the channel: refresh
\* true, false, missing, and values that are no booleans
JSFalse == [type |-> "boolean", text |-> <<"false">>]
JSUndefined == [type |-> "undefined", text |-> <<>>]
ChannelMessages ==
    { [refresh |-> JSTrue], [refresh |-> JSFalse], [refresh |-> JSUndefined],
      [refresh |-> [type |-> "number", text |-> <<"1">>]],
      [refresh |-> NumberZero],
      [refresh |-> StringValue(<<"n", "o">>)] }

\* another component of the page publishes on the channel; the subscription
\* hands every message to handleMessage, whoever sent it
PublishMessage(message) ==
    /\ Len(published) < MaxMessages
    /\ Publish(message, 0)
    /\ UNCHANGED <<timezone, sundayDate, showTable, hours, toast, edits, calls, records>>

\* mutant: refreshData does nothing
RefreshDataNever(disp) == disp

\* refreshApex(this.wiredHoursResult): a provisioned value is fetched again;
\* nothing is fetched for a value the wire adapter has not provisioned
RefreshData(disp) ==
    IF disp.wiredHoursResult = "undefined"
    THEN disp
    ELSE [disp EXCEPT !.fetches = Append(@, FetchRequest)]

\* the subscription's callback runs handleMessage on the next message
HandleMessage(d) ==
    /\ displays[d].inbox # <<>>
    /\ LET message == Head(displays[d].inbox)
           rest == [displays[d] EXCEPT !.inbox = Tail(@)]
       IN  displays' = [displays EXCEPT ![d] =
                IF Truthy(message.refresh) THEN RefreshData(rest) ELSE rest]
    /\ UNCHANGED <<timezone, sundayDate, showTable, hours, toast, edits, calls,
                   records, published>>

\* the position of the oldest request the server has not answered, 0 if none
FirstRequested(fs) ==
    IF \E i \in 1..Len(fs) : fs[i].stage = "requested"
    THEN CHOOSE i \in 1..Len(fs) :
            /\ fs[i].stage = "requested"
            /\ \A j \in 1..(i - 1) : fs[j].stage # "requested"
    ELSE 0

\* the server runs getAllHours for a display's oldest open request
GetAllHours(d) ==
    /\ FirstRequested(displays[d].fetches) # 0
    /\ \E rows \in OrderedScans :
         displays' = [displays EXCEPT
            ![d].fetches[FirstRequested(displays[d].fetches)] =
                [stage |-> "data", data |-> rows]]
    /\ UNCHANGED <<timezone, sundayDate, showTable, hours, toast, edits, calls,
                   records, published>>

\* the query fails: store unreachable, server fault
GetAllHoursFails(d) ==
    /\ FirstRequested(displays[d].fetches) # 0
    /\ displays' = [displays EXCEPT
            ![d].fetches[FirstRequested(displays[d].fetches)] =
                [stage |-> "error", data |-> <<>>]]
    /\ UNCHANGED <<timezone, sundayDate, showTable, hours, toast, edits, calls,
                   records, published>>

\* lines 68-78: one row per record
MapRecord(record) ==
    [ id |-> record.Id,
      sundayDate |-> record.Sunday_Date__c,
      hours |-> record.Hours ]

MapRecords(data) == [i \in 1..Len(data) |-> MapRecord(data[i])]

\* mutant: the rows of an answer are added to the rows shown
WiredHoursAppends(d) ==
    /\ displays[d].fetches # <<>>
    /\ Head(displays[d].fetches).stage # "requested"
    /\ LET result == Head(displays[d].fetches)
       IN  displays' = [displays EXCEPT
              ![d].fetches = Tail(@),
              ![d].wiredHoursResult = result.stage,
              ![d].hoursData = IF result.stage = "data"
                               THEN @ \o MapRecords(result.data)
                               ELSE @]
    /\ UNCHANGED <<timezone, sundayDate, showTable, hours, toast, edits, calls,
                   records, published>>

\* mutant: the error branch empties the table
WiredHoursClearsOnError(d) ==
    /\ displays[d].fetches # <<>>
    /\ Head(displays[d].fetches).stage # "requested"
    /\ LET result == Head(displays[d].fetches)
       IN  displays' = [displays EXCEPT
              ![d].fetches = Tail(@),
              ![d].wiredHoursResult = result.stage,
              ![d].hoursData = IF result.stage = "data"
                               THEN MapRecords(result.data)
                               ELSE <<>>]
    /\ UNCHANGED <<timezone, sundayDate, showTable, hours, toast, edits, calls,
                   records, published>>

\* the wire adapter provisions the oldest answer: wiredHours(result)
WiredHours(d) ==
    /\ displays[d].fetches # <<>>
    /\ Head(displays[d].fetches).stage # "requested"
    /\ LET result == Head(displays[d].fetches)
       IN  displays' = [displays EXCEPT
              ![d].fetches = Tail(@),
              ![d].wiredHoursResult = result.stage,
              ![d].hoursData = IF result.stage = "data"
                               THEN MapRecords(result.data)
                               ELSE @]
    /\ UNCHANGED <<timezone, sundayDate, showTable, hours, toast, edits, calls,
                   records, published>>

(***************************************************************************)
(* The page: the submission side and the displays.  The displays show the  *)
(* dates and the hours as stored, so the user here submits the hours as    *)
(* the form initialises them.                                              *)
(***************************************************************************)
DisplayNext ==
    \/ \E value \in DateInputs : HandleDateChange(value)
    \/ HandleSubmit
    \/ \E c \in 1..MaxCalls : SaveHoursQuery(c)
    \/ \E c \in 1..MaxCalls : SaveHoursInsert(c)
    \/ \E c \in 1..MaxCalls : SaveHoursThen(c)
    \/ \E c \in 1..MaxCalls : SaveHoursCatch(c)
    \/ \E d \in 1..NumDisplays : ConnectedCallback(d)
    \/ \E d \in 1..NumDisplays : HandleMessage(d)
    \/ \E d \in 1..NumDisplays : GetAllHours(d)
    \/ \E d \in 1..NumDisplays : GetAllHoursFails(d)
    \/ \E d \in 1..NumDisplays : WiredHours(d)

DisplaySpec == Init /\ [][DisplayNext]_vars

\* a message published is delivered, a request sent is answered, and the wire
\* adapter provisions every answer
DisplayFairness ==
    \A d \in 1..NumDisplays :
        /\ WF_vars(HandleMessage(d))
        /\ WF_vars(GetAllHours(d) \/ GetAllHoursFails(d))
        /\ WF_vars(WiredHours(d))

FairDisplaySpec == DisplaySpec /\ Fairness /\ DisplayFairness

(***************************************************************************)
(* The displays over a store that earlier sessions have filled: the        *)
(* records of up to MaxStored successful submissions, for dates that       *)
(* handleDateChange accepts, inserted in any order; two submissions for    *)
(* the same date are among them (the two inserts can race).                *)
(***************************************************************************)
\* the week starts saveHours stores for the dates handleDateChange accepts
StoredDates ==
    { ParseSundayDate(DateString(d)) :
        d \in {e \in 1..MaxStoredDate : GetDay(DateString(e), timezone) = 6} }

\* the record the n-th insert leaves for a submission with the initial hours
StoredHourTracker(n, date) ==
    [ Id |-> n,
      Sunday_Date__c |-> date,
      Hours |-> [d \in Days |->
                    [unscaled |-> CoerceHour(ZeroHours[d]).unscaled,
                     scale |-> CoerceHour(ZeroHours[d]).scale]] ]

FilledStores ==
    UNION { { {StoredHourTracker(i, dates[i]) : i \in 1..n} : dates \in [1..n -> StoredDates] }
            : n \in 0..MaxStored }

ChannelInit ==
    /\ timezone \in TimezoneOffsets
    /\ sundayDate = Undefined
    /\ showTable = FALSE
    /\ hours = ZeroHours
    /\ toast = NoToast
    /\ edits = 0
    /\ calls = <<>>
    /\ records \in FilledStores
    /\ published = <<>>
    /\ displays = [d \in 1..NumDisplays |-> NewDisplay]

ChannelNext ==
    \/ \E message \in ChannelMessages : PublishMessage(message)
    \/ \E d \in 1..NumDisplays : ConnectedCallback(d)
    \/ \E d \in 1..NumDisplays : HandleMessage(d)
    \/ \E d \in 1..NumDisplays : GetAllHours(d)
    \/ \E d \in 1..NumDisplays : GetAllHoursFails(d)
    \/ \E d \in 1..NumDisplays : WiredHours(d)

ChannelSpec == ChannelInit /\ [][ChannelNext]_vars

(***************************************************************************)
(* Properties of the submission side, checked under Spec (C7: FairSpec).   *)
(***************************************************************************)
CallIds == 1..Len(calls)

StoredRecord(id) == CHOOSE r \in records : r.Id = id

IsStored(id) == \E r \in records : r.Id = id

\* call c starts after call c1 completed with a record for the week that c
\* asks for
StartedAfterSameWeek(c, date) ==
    \E c1 \in calls[c].after :
        /\ IsStored(calls[c1].recordId)
        /\ StoredRecord(calls[c1].recordId).Sunday_Date__c = date

\* the server runs the first part of saveHours for call c in this step
QueryStep(c) ==
    /\ calls[c].pc = "sent"
    /\ calls'[c].pc # "sent"
    /\ calls'[c].error # "Transport"

\* C1: sequential uniqueness.  When saveHours runs for a call that started
\* after an earlier call for the same week start D had succeeded, the call
\* fails with the duplicate-week error and the stored records stay as they
\* were.
C1_SequentialUniqueness ==
    [][ \A c \in CallIds :
          ( /\ QueryStep(c)
            /\ calls[c].hourData.sundayDate.kind = "date"
            /\ StartedAfterSameWeek(c, calls[c].hourData.sundayDate.day + 1) )
          => ( /\ calls'[c].pc = "failed"
               /\ calls'[c].error = DuplicateMessage
               /\ calls'[c].recordId = 0
               /\ records' = records ) ]_vars

C1_Witness ==
    \E c \in CallIds :
        /\ calls[c].pc = "failed"
        /\ calls[c].error = DuplicateMessage
        /\ StartedAfterSameWeek(c, calls[c].sundayDate)

\* C2: global uniqueness.  At most one record is stored per week start, in
\* every reachable state.
C2_GlobalUniqueness ==
    \A r1, r2 \in records : r1.Sunday_Date__c = r2.Sunday_Date__c => r1 = r2

\* the server inserts the record of call c in this step
InsertStep(c) ==
    /\ calls[c].pc = "queried"
    /\ calls'[c].pc = "inserted"

\* C3: normalization.  The record a submission stores for a selected date
\* that handleDateChange accepts has the selected date plus exactly one day
\* as its week start.
C3_Normalization ==
    [][ \A c \in CallIds :
          ( /\ InsertStep(c)
            /\ GetDay(calls[c].hourData.sundayDate, timezone) = 6 )
          => ( /\ Cardinality(records' \ records) = 1
               /\ \A r \in records' \ records :
                    /\ r.Id = calls'[c].recordId
                    /\ r.Sunday_Date__c = calls[c].hourData.sundayDate.day + 1 ) ]_vars

C3_Witness ==
    \E c \in CallIds :
        /\ calls[c].pc = "inserted"
        /\ IsStored(calls[c].recordId)
        /\ GetDay(DateString(StoredRecord(calls[c].recordId).Sunday_Date__c - 1), timezone) = 6

\* no draft and no request on its way holds a date that handleDateChange rejects
NoRejectedDateCarried ==
    /\ sundayDate.kind = "date" => GetDay(sundayDate, timezone) = 6
    /\ \A c \in CallIds :
         calls[c].hourData.sundayDate.kind = "date"
            => GetDay(calls[c].hourData.sundayDate, timezone) = 6

\* C4: date rejection.  handleDateChange on a date whose weekday is not the
\* anchor weekday clears the draft's date, hides the hours table and touches
\* neither the calls nor the records; no draft and no saveHours call ever
\* carries such a date.
C4_DateRejection ==
    /\ []NoRejectedDateCarried
    /\ [][ \A value \in DateInputs :
             (GetDay(value, timezone) # 6 /\ HandleDateChange(value))
             => ( /\ sundayDate' = EmptyString
                  /\ showTable' = FALSE
                  /\ calls' = calls
                  /\ records' = records
                  /\ displays' = displays ) ]_vars

C4_Witness ==
    /\ sundayDate = EmptyString
    /\ showTable = FALSE
    /\ toast.title = "Invalid Date"
    /\ calls = <<>>

\* the draft is put back to the state resetForm leaves
DraftResetStep ==
    /\ sundayDate' = Null
    /\ hours' = ZeroHours
    /\ (sundayDate # Null \/ hours # ZeroHours)

PublishStep == Len(published') > Len(published)

\* the client learns in this step that the insert of call c succeeded
ConfirmStep(c) ==
    /\ calls[c].pc = "inserted"
    /\ IsStored(calls[c].recordId)
    /\ calls'[c].pc = "resolved"

\* C5: side-effect ordering.  Every publish on the Refresh Channel and every
\* reset of the draft happens in the step that confirms the successful
\* insert of the submission, never before it and never for a failed call.
C5_SideEffectOrdering ==
    /\ [](\A i \in 1..Len(published) :
             /\ published[i].from \in CallIds
             /\ calls[published[i].from].pc = "resolved"
             /\ IsStored(calls[published[i].from].recordId))
    /\ [][ (PublishStep \/ DraftResetStep) => \E c \in CallIds : ConfirmStep(c) ]_vars

C5_Witness ==
    /\ Len(published) > 0
    /\ sundayDate = Null
    /\ calls[published[1].from].pc = "resolved"

\* call c fails in this step, on the server or on the way to it
FailStep(c) ==
    /\ calls[c].pc \in {"sent", "queried"}
    /\ calls'[c].pc = "failed"

\* the .catch callback runs for call c in this step
CatchStep(c) ==
    /\ calls[c].pc = "failed"
    /\ calls'[c].pc = "rejected"

\* C6: failure leaves state alone.  A failing saveHours call writes no
\* record; the step in which it fails and the step in which the client
\* handles the failure leave the draft, the published messages and the
\* records as they were, and the latter dispatches an error toast.
C6_FailureLeavesState ==
    /\ [](\A c \in CallIds : calls[c].pc \in {"failed", "rejected"} => calls[c].recordId = 0)
    /\ [][ \A c \in CallIds :
             /\ (FailStep(c) \/ CatchStep(c))
                => ( /\ sundayDate' = sundayDate
                     /\ hours' = hours
                     /\ published' = published
                     /\ records' = records )
             /\ CatchStep(c)
                => toast' = ShowToastEvent("Error", calls[c].error, "error") ]_vars

C6_Witness ==
    \E c \in CallIds :
        /\ calls[c].pc = "rejected"
        /\ toast.variant = "error"
        /\ toast.title = "Error"
        /\ sundayDate.kind = "date"
        /\ hours # ZeroHours

PublishedBy(c) == {i \in 1..Len(published) : published[i].from = c}

\* the state the .then callback of call c leaves
SuccessHandled(c) ==
    /\ c \in CallIds
    /\ calls[c].pc = "resolved"
    /\ Cardinality(PublishedBy(c)) = 1
    /\ \A i \in PublishedBy(c) : published[i].message = RefreshMessage
    /\ sundayDate = Null
    /\ hours = ZeroHours
    /\ toast = ShowToastEvent("Success", "Hours saved successfully!", "success")

\* C7: success response.  Every successful insert is eventually followed by
\* exactly one publish of {refresh: true}, the draft cleared (no date, seven
\* hour fields 0) and a success toast.
C7_SuccessResponse ==
    /\ [](\A c \in CallIds : Cardinality(PublishedBy(c)) <= 1)
    /\ \A c \in 1..MaxCalls :
         (c \in CallIds /\ calls[c].pc = "inserted") ~> SuccessHandled(c)

C7_Witness == \E c \in CallIds : SuccessHandled(c)

\* some hour field of the request of call c is no decimal
HasInvalidHours(c) ==
    \E d \in Days : ~DecimalValueOf(calls[c].hourData.hours[d].text).ok

\* C9: no partial write on invalid hours.  A saveHours call with an hour
\* field that cannot be coerced to a decimal never inserts: each step the
\* server takes for it leaves the records as they were, and the call fails.
C9_NoPartialWrite ==
    [][ \A c \in CallIds :
          (HasInvalidHours(c) /\ calls'[c] # calls[c])
          => ( /\ records' = records
               /\ calls'[c].recordId = 0
               /\ calls'[c].pc \in {"queried", "failed"}
               /\ calls[c].pc = "queried" => calls'[c].pc = "failed" ) ]_vars

C9_Witness ==
    \E c \in CallIds :
        /\ calls[c].pc = "failed"
        /\ calls[c].error = "Invalid decimal"
        /\ records = {}

\* C10: non-negative hours.  Every stored record has seven hour values that
\* are greater than or equal to zero.
C10_NonNegativeHours ==
    \A r \in records : \A d \in Days : r.Hours[d].unscaled >= 0

\* C16: stored records are immutable and permanent.  Every step keeps every
\* stored record as it is, with its Id, its week start and its seven hour
\* values, and gives a record it adds an Id no stored record has; the
\* stored set only grows.
C16_RecordsImmutable ==
    [][ /\ records \subseteq records'
        /\ \A r \in records : \A s \in records' : s.Id = r.Id => s = r
        /\ Cardinality(records') \in {Cardinality(records), Cardinality(records) + 1} ]_vars

\* two records are stored: the first is still there after the insert of the
\* second, the client's handling of its own success and a new date in the
\* draft
C16_Witness ==
    /\ \E c \in CallIds : calls[c].pc = "resolved" /\ IsStored(calls[c].recordId)
    /\ \E c \in CallIds : calls[c].pc = "inserted" /\ IsStored(calls[c].recordId)
    /\ Cardinality(records) = 2
    /\ sundayDate.kind = "date"

\* handleDateChange rejects a date in this step
RejectStep ==
    /\ toast' = ShowToastEvent("Invalid Date", "Please select a Sunday date.", "error")
    /\ showTable' = FALSE
    /\ calls' = calls
    /\ edits' = edits

\* C17 as stated: after handleDateChange rejects a date the whole draft is
\* empty: no date, and the seven hour fields 0.
C17_DraftDiscarded ==
    [][ RejectStep => (sundayDate' \in {EmptyString, Null} /\ hours' = ZeroHours) ]_vars

\* C17, amended: after handleDateChange rejects a date the draft's date is
\* the empty string (not null, as after a successful submission), and the
\* seven hour fields are what they were before.
C17_OnlyDateCleared ==
    [][ RejectStep => (sundayDate' = EmptyString /\ hours' = hours) ]_vars

\* a date was rejected and the hours typed before are still in the draft
C17_Witness ==
    /\ toast.title = "Invalid Date"
    /\ sundayDate = EmptyString
    /\ hours # ZeroHours
    /\ edits = MaxEdits

\* the draft a request carries has no date, or an hour field that is no number
Malformed(hourData) ==
    \/ hourData.sundayDate.kind # "date"
    \/ \E d \in Days : ~CoerceHour(hourData.hours[d]).ok

\* the request of call c is with the server, or on its way to it
InFlight(c) == calls[c].pc \in {"sent", "queried"}

\* C11 as stated: a malformed draft is caught by the client, so that no
\* saveHours request ever carries a draft without a date or with an hour
\* field that is no number.
C11_CaughtClientSide ==
    \A c \in CallIds : InFlight(c) => ~Malformed(calls[c].hourData)

\* C11, amended: handleSubmit sends the saveHours request for a malformed
\* draft as for any other; the request fails on the server or on the way to
\* it, no step taken for it writes a record, publishes or changes the draft,
\* and the handling of the failure leaves the draft as it is.
C11_CaughtByServer ==
    /\ [][ HandleSubmit =>
             /\ Len(calls') = Len(calls) + 1
             /\ calls'[Len(calls')].pc = "sent"
             /\ calls'[Len(calls')].hourData = [sundayDate |-> sundayDate, hours |-> hours] ]_vars
    /\ [][ \A c \in CallIds :
             (InFlight(c) /\ Malformed(calls[c].hourData) /\ calls'[c] # calls[c])
             => ( /\ calls'[c].pc \in {"queried", "failed"}
                  /\ calls[c].hourData.sundayDate.kind # "date" => calls'[c].pc = "failed"
                  /\ calls[c].pc = "queried" => calls'[c].pc = "failed"
                  /\ calls'[c].recordId = 0
                  /\ records' = records
                  /\ published' = published
                  /\ sundayDate' = sundayDate
                  /\ hours' = hours ) ]_vars

C11_Witness ==
    \E c \in CallIds :
        /\ calls[c].pc = "failed"
        /\ calls[c].error = "Invalid date"
        /\ sundayDate \in {Undefined, EmptyString, Null}
        /\ hours # ZeroHours
        /\ records = {}

\* the weekday of a calendar date (0 = Sunday), 1970-01-01 being a Thursday
WeekdayOf(day) == (day + 4) % 7

\* a request whose draft has no date never gets past the parsing of the date
NoDateNoRecord ==
    \A c \in CallIds :
        (InFlight(c) /\ calls[c].hourData.sundayDate.kind # "date") => calls[c].pc = "sent"

\* C18: week-start weekday invariant.  Every stored record's week start is a
\* Sunday (weekday 0, the weekday after the anchor weekday 6), and a request
\* whose draft has no date writes no record.
C18_WeekStartWeekday ==
    /\ \A r \in records : WeekdayOf(r.Sunday_Date__c) = 0
    /\ NoDateNoRecord

\* the user changes the draft in this step
DraftEditStep ==
    /\ (sundayDate' # sundayDate \/ hours' # hours)
    /\ Len(calls') = Len(calls)
    /\ \A c \in CallIds : calls'[c].pc = calls[c].pc

\* the hour values saveHours stores for the values a request carries
StoredHours(hs) ==
    [d \in Days |-> [unscaled |-> DecimalValueOf(hs[d].text).unscaled,
                     scale |-> DecimalValueOf(hs[d].text).scale]]

\* C20: submission snapshot.  A request carries the date and the seven hour
\* values the draft holds as handleSubmit is invoked; a change of the draft
\* while the call is in flight leaves the request as it is; the record
\* inserted has the date (plus one day) and the hour values of the request;
\* and the success callback puts the draft back to no date and seven times
\* 0, whatever was typed in the meantime.
C20_SubmissionSnapshot ==
    [][ /\ Len(calls') > Len(calls)
            => calls'[Len(calls')].hourData = [sundayDate |-> sundayDate, hours |-> hours]
        /\ DraftEditStep
            => \A c \in CallIds : InFlight(c) => calls'[c].hourData = calls[c].hourData
        /\ \A c \in CallIds :
             /\ InsertStep(c)
                 => \E r \in records' \ records :
                       /\ r.Id = calls'[c].recordId
                       /\ r.Sunday_Date__c = calls[c].hourData.sundayDate.day + 1
                       /\ r.Hours = StoredHours(calls[c].hourData.hours)
             /\ ConfirmStep(c) => (sundayDate' = Null /\ hours' = ZeroHours) ]_vars

\* a record with the hours of the draft at handleSubmit is stored, the
\* response is still on its way, and the draft has been edited since
C20_Witness ==
    \E c \in CallIds :
        /\ calls[c].pc = "inserted"
        /\ IsStored(calls[c].recordId)
        /\ StoredRecord(calls[c].recordId).Hours = StoredHours(ZeroHours)
        /\ hours # ZeroHours
        /\ Cardinality(records) = 1

(***************************************************************************)
(* Properties of the displays, checked under DisplaySpec.                  *)
(***************************************************************************)
ShownIds(d) == {displays[d].hoursData[i].id : i \in 1..Len(displays[d].hoursData)}

\* display d has handled every message and received every answer
Quiescent(d) ==
    /\ displays[d].inbox = <<>>
    /\ displays[d].fetches = <<>>

\* C8 as stated: once a display that was subscribed when {refresh: true} was
\* published has handled the message and received the answers, it shows
\* every record that was stored when the message was published.
C8_EverySubscriberShowsLatest ==
    \A d \in 1..NumDisplays : \A i \in 1..Len(published) :
        (d \in published[i].to /\ Quiescent(d))
        => published[i].stored \subseteq ShownIds(d)

\* every row shown is the row of a stored record
RowsAreStored(d) ==
    \A i \in 1..Len(displays[d].hoursData) :
        \E r \in records : MapRecord(r) = displays[d].hoursData[i]

\* What does hold, under FairDisplaySpec: a display that was subscribed and
\* held a provisioned wire result when {refresh: true} was published
\* eventually handles the message and receives the answer of its re-query;
\* when that answer is data, it shows stored records only, and among them
\* every record that was stored when the message was published.
RefreshPropagationWhenLoaded ==
    /\ [](\A d \in 1..NumDisplays : \A i \in 1..Len(published) :
            ( /\ d \in published[i].loaded
              /\ Quiescent(d)
              /\ displays[d].wiredHoursResult = "data" )
            => ( /\ published[i].stored \subseteq ShownIds(d)
                 /\ RowsAreStored(d) ))
    /\ \A d \in 1..NumDisplays : (displays[d].inbox # <<>>) ~> Quiescent(d)

RefreshPropagationWhenLoaded_Witness ==
    \E d \in 1..NumDisplays : \E i \in 1..Len(published) :
        /\ d \in published[i].loaded
        /\ Quiescent(d)
        /\ displays[d].wiredHoursResult = "data"
        /\ calls[published[i].from].recordId \in ShownIds(d)
        /\ published[i].stored \subseteq ShownIds(d)

(***************************************************************************)
(* Properties of getAllHours and of the displays over a filled store,      *)
(* checked under ChannelSpec.                                              *)
(***************************************************************************)
\* the rows are in ascending order of week start
SortedByDate(rows) ==
    \A i, j \in 1..Len(rows) : i < j => rows[i].sundayDate <= rows[j].sundayDate

\* the list has every stored record exactly once
EveryRecordOnce(data) ==
    /\ Len(data) = Cardinality(records)
    /\ {data[i] : i \in 1..Len(data)} = records

\* C12: ordering.  Whatever the stored records and the order of their
\* insertion, every answer of getAllHours has all of them in ascending order
\* of week start, and the rows of a display that shows an answer are the
\* rows of these records in the same order.
C12_Ordering ==
    \A d \in 1..NumDisplays :
        /\ \A i \in 1..Len(displays[d].fetches) :
              displays[d].fetches[i].stage = "data"
              => ( /\ EveryRecordOnce(displays[d].fetches[i].data)
                   /\ SortedByDate(MapRecords(displays[d].fetches[i].data)) )
        /\ displays[d].wiredHoursResult = "data"
              => ( /\ Len(displays[d].hoursData) = Cardinality(records)
                   /\ RowsAreStored(d)
                   /\ records # {} => ShownIds(d) = {r.Id : r \in records} )
        /\ SortedByDate(displays[d].hoursData)

\* the later week was inserted first
C12_Witness ==
    \E d \in 1..NumDisplays :
        /\ Len(displays[d].hoursData) = 2
        /\ displays[d].hoursData[1].id > displays[d].hoursData[2].id
        /\ displays[d].hoursData[1].sundayDate < displays[d].hoursData[2].sundayDate

\* the records an answer of getAllHours lists
Listed(data) == {data[i] : i \in 1..Len(data)}

\* C13: fetch idempotence.  Two answers of getAllHours that a display holds,
\* computed over the same stored records (no insert between the two
\* queries and no refreshApex between them), are the same list in the same
\* order.
C13_FetchIdempotence ==
    \A d \in 1..NumDisplays :
        \A i, j \in 1..Len(displays[d].fetches) :
            LET first == displays[d].fetches[i]
                second == displays[d].fetches[j]
            IN  ( /\ first.stage = "data"
                  /\ second.stage = "data"
                  /\ Listed(first.data) = Listed(second.data) )
                => first.data = second.data

\* display d handles a message in this step and sends no query for it, and
\* its rows stay as they are
MessageIgnored(d) ==
    /\ displays'[d].fetches = displays[d].fetches
    /\ displays'[d].hoursData = displays[d].hoursData

\* C15 as stated: a display that handles a message whose refresh field is
\* anything but the boolean true sends no query and leaves its rows as they
\* are.
C15_OnlyExactlyTrue ==
    [][ \A d \in 1..NumDisplays :
          ( /\ displays[d].inbox # <<>>
            /\ displays'[d].inbox = Tail(displays[d].inbox)
            /\ Head(displays[d].inbox).refresh # JSTrue )
          => MessageIgnored(d) ]_vars

\* the values of a refresh field that JavaScript takes for false in a test
FalsyValues == {JSFalse, JSUndefined, NumberZero, StringValue(<<>>)}

\* C15, amended: handleMessage tests the refresh field for truthiness.  A
\* display that handles a message whose refresh field is falsy (false,
\* missing, 0, the empty string) sends no query and leaves its rows as they
\* are; a display that holds a provisioned wire result and handles a message
\* whose refresh field is truthy (true, a number other than 0, a string that
\* is not empty) sends exactly one query.
C15_TruthyRefresh ==
    [][ \A d \in 1..NumDisplays :
          ( /\ displays[d].inbox # <<>>
            /\ displays'[d].inbox = Tail(displays[d].inbox) )
          => IF /\ Head(displays[d].inbox).refresh \notin FalsyValues
                /\ displays[d].wiredHoursResult # "undefined"
             THEN /\ displays'[d].fetches = Append(displays[d].fetches, FetchRequest)
                  /\ displays'[d].hoursData = displays[d].hoursData
             ELSE MessageIgnored(d) ]_vars

\* a loaded display has sent a query for the one message published, whose
\* refresh field is a truthy value that is not the boolean true
C15_Witness ==
    \E d \in 1..NumDisplays :
        /\ Len(published) = 1
        /\ published[1].message.refresh \notin FalsyValues \cup {JSTrue}
        /\ d \in published[1].loaded
        /\ displays[d].inbox = <<>>
        /\ displays[d].fetches = <<FetchRequest>>

(***************************************************************************)
(* Properties of the displays, checked under DisplaySpec.                  *)
(***************************************************************************)
\* a getAllHours query of display d fails in this step
QueryFailsStep(d) ==
    \E i \in 1..Len(displays[d].fetches) :
        /\ displays[d].fetches[i].stage = "requested"
        /\ Len(displays'[d].fetches) = Len(displays[d].fetches)
        /\ displays'[d].fetches[i].stage = "error"

\* wiredHours receives the error of a failed query in this step
ErrorProvisionedStep(d) ==
    /\ displays[d].fetches # <<>>
    /\ Head(displays[d].fetches).stage = "error"
    /\ displays'[d].fetches = Tail(displays[d].fetches)

\* display d sends a getAllHours request in this step
RequestStep(d) == Len(displays'[d].fetches) > Len(displays[d].fetches)

\* display d connects in this step
ConnectStep(d) == ~displays[d].connected /\ displays'[d].connected

\* display d takes the next message from the channel in this step
MessageStep(d) ==
    /\ displays[d].inbox # <<>>
    /\ displays'[d].inbox = Tail(displays[d].inbox)

\* C14: query failure keeps the cache.  When a getAllHours query fails, and
\* when wiredHours receives the error, hoursData stays as it was and no new
\* query is sent; a display sends a query only as it connects and as it
\* handles a refresh message.
C14_QueryFailureKeepsCache ==
    [][ \A d \in 1..NumDisplays :
          /\ (QueryFailsStep(d) \/ ErrorProvisionedStep(d))
                => ( /\ displays'[d].hoursData = displays[d].hoursData
                     /\ ~RequestStep(d) )
          /\ RequestStep(d)
                => ( \/ ConnectStep(d)
                     \/ MessageStep(d) /\ Truthy(Head(displays[d].inbox).refresh) ) ]_vars

\* the refetch of a loaded display has failed, the loaded rows are still shown
C14_Witness ==
    \E d \in 1..NumDisplays :
        /\ displays[d].wiredHoursResult = "error"
        /\ displays[d].hoursData # <<>>
        /\ Quiescent(d)

\* the records the store held after its k-th insert
StoreAfter(k) == {r \in records : r.Id <= k}

\* the rows display d shows are the rows of the whole store as it was after
\* some insert, each record once, in ascending order of week start
ShowsPastStore(d) ==
    LET rows == displays[d].hoursData
    IN  /\ \E k \in 0..Cardinality(records) :
              /\ Len(rows) = Cardinality(StoreAfter(k))
              /\ {rows[i] : i \in 1..Len(rows)} = {MapRecord(r) : r \in StoreAfter(k)}
        /\ \A i, j \in 1..Len(rows) : i # j => rows[i].id # rows[j].id
        /\ SortedByDate(rows)

\* wiredHours receives the data of an answered query in this step
DataProvisionedStep(d) ==
    /\ displays[d].fetches # <<>>
    /\ Head(displays[d].fetches).stage = "data"
    /\ displays'[d].fetches = Tail(displays[d].fetches)

\* C19: the display is a past snapshot of the store.  In every state the
\* rows of each display are the full content of the store at the current or
\* an earlier moment, in order, each row that of a stored record with the
\* same id, week start and hours and no row twice; and when an answer
\* arrives its rows replace the rows shown.
C19_DisplayIsPastSnapshot ==
    /\ [](\A d \in 1..NumDisplays : ShowsPastStore(d))
    /\ [][ \A d \in 1..NumDisplays :
             DataProvisionedStep(d)
             => /\ Len(displays'[d].hoursData) = Len(Head(displays[d].fetches).data)
                /\ \A i \in 1..Len(displays'[d].hoursData) :
                      displays'[d].hoursData[i].id = Head(displays[d].fetches).data[i].Id ]_vars

\* the display shows the store as it was before the second insert
C19_Witness ==
    \E d \in 1..NumDisplays :
        /\ displays[d].wiredHoursResult = "data"
        /\ Len(displays[d].hoursData) = 1
        /\ Cardinality(records) = 2
        /\ Quiescent(d)

====
